---- MODULE Spec2Model ----
(***************************************************************************)
(* stim: a caffeine intake tracker (src/stim/stim.py).                     *)
(*                                                                         *)
(* The state of the program is two files, the dose store (DATA_FILE) and   *)
(* the cached level (CACHE_FILE), and the wall clock.  Every operation     *)
(* loads the store, changes it and writes it back.                         *)
(*                                                                         *)
(* Numbers.  Timestamps are whole seconds.  Amounts and levels are Python  *)
(* floats: they are modelled as binary floating point numbers m * 2^e with *)
(* a mantissa of MantissaBits bits (53 in CPython) and round-half-even,    *)
(* so that the order of the additions of calculate_current_level matters   *)
(* as it does in the program.  round(x, 2) yields hundredths of a mg.      *)
(* Levels are computed at whole hours after a dose.                        *)
(***************************************************************************)
EXTENDS Integers, Sequences, FiniteSets, TLC

\* ------------------------------------------------------------------ bounds
\* Width of the mantissa of the modelled floats.
MantissaBits == 12
\* Largest value of next_id at which add still runs (caps the number of doses).
MaxId == 2
\* Number of clock advances.
MaxTicks == 1
\* Length of one clock advance, in hours.
TickHours == 30
\* Longest dose list given to calculate_current_level alone.
MaxLen == 3
\* Number of half-lives after StartTime up to which the level is queried.
MaxHalfLives == 6
\* Number of half hours after StartTime at which get_next_time is called.
MaxHalfHours == 96

\* --------------------------------------------------------------- constants
HALF_LIFE_HOURS == 6
\* add_dose rejects amounts above this many mg.
MAX_AMOUNT == 1000
\* clean_old_doses keeps doses younger than HALF_LIFE_HOURS * this.
PRUNE_HALF_LIVES == 10
SecondsPerHour == 3600
SecondsPerDay == 86400
\* generate_timeseries warns above this many points.
MAX_POINTS == 10000
\* stim history shows this many doses.
HISTORY_LIMIT == 5
\* json.dump(data, f, indent=2): the characters of a store besides its two
\* lists and next_id, and those of a dose besides id, timestamp and amount.
StoreFrame == 50
DoseFrame == 105
\* The clock starts at midnight of day 2, so that backdated doses have
\* positive timestamps.
StartTime == 2 * SecondsPerDay

VARIABLES
    DATA_FILE,      \* <<>> when the store file does not exist, else <<data>>
    CACHE_FILE,     \* <<>> when the cache file does not exist, else <<cache>>
    now,            \* time.time(), in seconds
    ticks,          \* number of clock advances so far
    issued,         \* history: the ids add_dose has given out, in order
    last,           \* history: the last operation, its inputs and its result
    pre_add,        \* history: the store before an add that was just undone
    undo_stack,     \* history: the stores before each of a run of undos
    redo_count,     \* history: the redos that followed that run of undos
    redo_trail,     \* history: how far an undo, an add and a redo in a row have
                    \* come, with the store before the undo
    race,           \* two invocations running at once: where each one is, what
                    \* it loaded and will save, and the order of their steps
    perm_doses,     \* calculate_current_level alone: the dose list given
    perm_time,      \* calculate_current_level alone: the query time
    perm_level      \* calculate_current_level alone: the level returned (when the
                    \* list is reordered, the level of the first ordering)

vars == <<DATA_FILE, CACHE_FILE, now, ticks, issued, last, pre_add,
          undo_stack, redo_count, redo_trail, race, perm_doses, perm_time,
          perm_level>>

\* ------------------------------------------------------------------ floats
Abs(x) == IF x < 0 THEN -x ELSE x

\* Number of bits of n >= 0.
BitLen(n) == CHOOSE b \in 0..30 : n < 2^b /\ (b = 0 \/ n >= 2^(b-1))

\* n / d rounded to the nearest integer, ties to even (n >= 0, d > 0).
RoundHalfEven(n, d) ==
    LET q == n \div d
        r == n % d
    IN  IF 2 * r > d \/ (2 * r = d /\ q % 2 = 1) THEN q + 1 ELSE q

Zero == [m |-> 0, e |-> 0]

\* The float nearest to n * 2^e, n >= 0.
FlPos(n, e) ==
    IF n = 0 THEN Zero
    ELSE LET b == BitLen(n) IN
         IF b <= MantissaBits
         THEN [m |-> n * 2^(MantissaBits - b), e |-> e - (MantissaBits - b)]
         ELSE LET sh == b - MantissaBits
                  q  == RoundHalfEven(n, 2^sh)
              IN  IF q = 2^MantissaBits
                  THEN [m |-> 2^(MantissaBits - 1), e |-> e + sh + 1]
                  ELSE [m |-> q, e |-> e + sh]

\* The float nearest to n * 2^e.
Fl(n, e) ==
    IF n < 0 THEN [m |-> -(FlPos(-n, e).m), e |-> FlPos(-n, e).e] ELSE FlPos(n, e)

\* a + b, rounded.
FAdd(a, b) ==
    IF a.m = 0 THEN b
    ELSE IF b.m = 0 THEN a
    ELSE IF a.e >= b.e
         THEN IF a.e - b.e > MantissaBits + 1 THEN a
              ELSE Fl(a.m * 2^(a.e - b.e) + b.m, b.e)
         ELSE IF b.e - a.e > MantissaBits + 1 THEN b
              ELSE Fl(b.m * 2^(b.e - a.e) + a.m, a.e)

\* a * b, rounded.
FMul(a, b) == Fl(a.m * b.m, a.e + b.e)

\* a < b.
FLess(a, b) ==
    IF a.m = 0 \/ b.m = 0 \/ (a.m < 0) # (b.m < 0) THEN a.m < b.m
    ELSE IF a.e = b.e THEN a.m < b.m
    ELSE IF a.m > 0 THEN a.e < b.e ELSE a.e > b.e

\* float(text) for a decimal text of num / den (|num / den| < 2^(MantissaBits-1)).
ParseFloat(num, den) ==
    IF num = 0 THEN Zero
    ELSE LET n == Abs(num)
             k == CHOOSE k \in 0..28 :
                     /\ n * 2^k >= den * 2^(MantissaBits - 1)
                     /\ n * 2^k <  den * 2^MantissaBits
             f == FlPos(RoundHalfEven(n * 2^k, den), -k)
         IN  IF num < 0 THEN [m |-> -f.m, e |-> f.e] ELSE f

\* round(x, 2) of a float x >= 0, in hundredths.
Round2(x) ==
    IF x.e >= 0 THEN x.m * 100 * 2^(x.e)
    ELSE IF -x.e >= 30 THEN 0
    ELSE RoundHalfEven(x.m * 100, 2^(-x.e))

\* 2^(-j/6) * 2^20 for j = 0..5, to the nearest integer.
SixthRoots == <<1048576, 934175, 832255, 741455, 660561, 588493>>

\* 0.5 ** (hours_passed / HALF_LIFE_HOURS) for hours_passed = secs / 3600 >= 0.
HalfPow(secs) ==
    LET hours == secs \div SecondsPerHour
        whole == hours \div HALF_LIFE_HOURS
        part  == hours % HALF_LIFE_HOURS
    IN  FlPos(SixthRoots[part + 1], -20 - whole)

\* ------------------------------------------------------------- dose store
\* datetime.fromtimestamp(t).strftime('%d/%m/%Y %H:%M:%S'): day, hour, minute, second.
strftime(t) ==
    <<t \div SecondsPerDay, (t % SecondsPerDay) \div SecondsPerHour,
      (t % SecondsPerHour) \div 60, t % 60>>

\* The store of a first run, when DATA_FILE does not exist.
EmptyData == [doses |-> <<>>, undone_doses |-> <<>>, next_id |-> 1]

\* The loop of load_data over the doses of a file without next_id: doses
\* without an id get the next id, doses with an id are left alone.
RECURSIVE AssignIds(_, _)
AssignIds(doses, next_id) ==
    IF doses = <<>> THEN [doses |-> <<>>, next_id |-> next_id]
    ELSE IF "id" \in DOMAIN Head(doses)
         THEN LET rest == AssignIds(Tail(doses), next_id)
              IN  [doses |-> <<Head(doses)>> \o rest.doses, next_id |-> rest.next_id]
         ELSE LET rest == AssignIds(Tail(doses), next_id + 1)
              IN  [doses |-> <<Head(doses) @@ [id |-> next_id]>> \o rest.doses,
                   next_id |-> rest.next_id]

load_data(file) ==
    IF file = <<>> THEN EmptyData
    ELSE LET data == file[1]
             undone == IF "undone_doses" \in DOMAIN data
                       THEN data.undone_doses ELSE <<>>
         IN  IF "next_id" \in DOMAIN data
             THEN [doses |-> data.doses, undone_doses |-> undone,
                   next_id |-> data.next_id]
             ELSE [doses |-> AssignIds(data.doses, 1).doses,
                   undone_doses |-> undone,
                   next_id |-> AssignIds(data.doses, 1).next_id]

save_data(data) == <<data>>

\* The processes that may run an invocation at the same time.
Procs == {1, 2}

\* No invocation is under way.
NoRace ==
    [procs |-> [p \in Procs |-> [pc |-> "idle", loaded |-> <<>>, new |-> <<>>]],
     log |-> <<>>]

\* ------------------------------------------------------------- decay model
\* sorted(doses, key=timestamp): a stable sort.
RECURSIVE InsertByTimestamp(_, _)
InsertByTimestamp(sorted, dose) ==
    IF sorted = <<>> THEN <<dose>>
    ELSE IF Head(sorted).timestamp <= dose.timestamp
         THEN <<Head(sorted)>> \o InsertByTimestamp(Tail(sorted), dose)
         ELSE <<dose>> \o sorted

RECURSIVE SortByTimestamp(_)
SortByTimestamp(doses) ==
    IF doses = <<>> THEN <<>>
    ELSE InsertByTimestamp(SortByTimestamp(SubSeq(doses, 1, Len(doses) - 1)),
                           doses[Len(doses)])

\* The loop of calculate_current_level: total += remaining, in list order.
RECURSIVE SumRemaining(_, _, _)
SumRemaining(doses, current_time, total) ==
    IF doses = <<>> THEN total
    ELSE LET dose == Head(doses)
             remaining == FMul(dose.amount, HalfPow(current_time - dose.timestamp))
         IN  SumRemaining(Tail(doses), current_time, FAdd(total, remaining))

\* specific_time is <<>> for None, else <<t>>; clock is time.time().
calculate_current_level(doses, specific_time, clock) ==
    LET current_time == IF specific_time = <<>> \/ specific_time[1] = 0
                        THEN clock ELSE specific_time[1]
        sorted_doses == SortByTimestamp(doses)
        valid_doses  == SelectSeq(sorted_doses,
                                  LAMBDA d : d.timestamp <= current_time)
    IN  Round2(SumRemaining(valid_doses, current_time, Zero))

\* ------------------------------------------------------------------- cache
cache_current_level(file, clock) ==
    LET data == load_data(file)
    IN  [timestamp |-> clock,
         level     |-> calculate_current_level(data.doses, <<>>, clock),
         datetime  |-> strftime(clock)]

\* CACHE_FILE.unlink() when it exists.
invalidate_cache(cache) == <<>>

\* -------------------------------------------------------------- operations
\* Each operation is given by its effect on the two files: the files after it
\* (file, cache), whether it did its work (ok) and what it returned or printed.

\* Inputs of the command line: amounts in thousandths of a mg, offsets in minutes.
Amounts == {-5000, 0, 1000000, 1500000}
Offsets == {0, 2 * TickHours * 60}
CheckAmounts == {100000}

\* Mutant of add_dose_rejects: the upper test written amount >= 1000.
add_dose_rejects_upper_ge(amount) ==
    \/ ~FLess(Zero, amount)
    \/ ~FLess(amount, ParseFloat(MAX_AMOUNT, 1))

\* The two tests that make add_dose raise ValueError.
add_dose_rejects(amount) ==
    \/ ~FLess(Zero, amount)
    \/ FLess(ParseFloat(MAX_AMOUNT, 1), amount)

\* The amounts add_dose accepts.
ValidAmounts == {text \in Amounts : ~add_dose_rejects(ParseFloat(text, 1000))}

\* Mutant of dose_timestamp: the offset is subtracted with its sign.
dose_timestamp_signed(clock, minutes_offset) ==
    LET timestamp == clock - minutes_offset * 60
    IN  IF timestamp > clock THEN clock ELSE timestamp

\* timestamp = time.time() - abs(minutes_offset * 60), never after time.time().
dose_timestamp(clock, minutes_offset) ==
    LET timestamp == clock - Abs(minutes_offset * 60)
    IN  IF timestamp > clock THEN clock ELSE timestamp

\* Mutant of add_dose_data: a new dose empties undone_doses.
add_dose_data_clears_undone(data, amount, timestamp) ==
    [doses |-> Append(data.doses,
                      [id |-> data.next_id, timestamp |-> timestamp,
                       amount |-> amount, datetime |-> strftime(timestamp)]),
     undone_doses |-> <<>>,
     next_id |-> data.next_id + 1]

\* The store add_dose saves.
add_dose_data(data, amount, timestamp) ==
    LET dose == [id |-> data.next_id, timestamp |-> timestamp,
                 amount |-> amount, datetime |-> strftime(timestamp)]
    IN  [doses |-> Append(data.doses, dose),
         undone_doses |-> data.undone_doses,
         next_id |-> data.next_id + 1]

\* main: stim <amount> [<minutes>]: float(cmd), add_dose, except ValueError.
add_dose_effect(file, cache, text, minutes_offset, clock) ==
    LET amount == ParseFloat(text, 1000) IN
    IF add_dose_rejects(amount)
    THEN [file |-> file, cache |-> cache, ok |-> FALSE, ret |-> <<"ValueError">>]
    ELSE LET data == load_data(file)
             new  == add_dose_data(data, amount, dose_timestamp(clock, minutes_offset))
         IN  [file |-> save_data(new), cache |-> invalidate_cache(cache), ok |-> TRUE,
              ret |-> <<calculate_current_level(new.doses, <<>>, clock)>>]

\* Mutant of handle_undo_data: undo gives the id of the removed dose back.
handle_undo_data_next_id_back(data) ==
    [doses |-> SubSeq(data.doses, 1, Len(data.doses) - 1),
     undone_doses |-> Append(data.undone_doses, data.doses[Len(data.doses)]),
     next_id |-> data.next_id - 1]

\* Mutant of handle_undo_data: undo removes the dose with the latest timestamp.
handle_undo_data_latest_timestamp(data) ==
    LET n == Len(data.doses)
        i == CHOOSE i \in 1..n :
                 \A j \in 1..n : data.doses[j].timestamp <= data.doses[i].timestamp
    IN  [doses |-> [j \in 1..(n - 1) |->
                       IF j < i THEN data.doses[j] ELSE data.doses[j + 1]],
         undone_doses |-> Append(data.undone_doses, data.doses[i]),
         next_id |-> data.next_id]

\* The store handle_undo saves (doses is not empty).
handle_undo_data(data) ==
    LET removed == data.doses[Len(data.doses)]
    IN  [doses |-> SubSeq(data.doses, 1, Len(data.doses) - 1),
         undone_doses |-> Append(data.undone_doses, removed),
         next_id |-> data.next_id]

\* Mutant of handle_undo_effect: the cache is deleted before the test for an
\* empty store.
handle_undo_effect_unlink_first(file, cache) ==
    LET data == load_data(file) IN
    IF data.doses = <<>>
    THEN [file |-> file, cache |-> <<>>, ok |-> FALSE, ret |-> <<"No doses to undo">>]
    ELSE [file |-> save_data(handle_undo_data(data)),
          cache |-> <<>>, ok |-> TRUE,
          ret |-> <<data.doses[Len(data.doses)]>>]

\* stim undo
handle_undo_effect(file, cache) ==
    LET data == load_data(file) IN
    IF data.doses = <<>>
    THEN [file |-> file, cache |-> cache, ok |-> FALSE, ret |-> <<"No doses to undo">>]
    ELSE [file |-> save_data(handle_undo_data(data)),
          cache |-> invalidate_cache(cache), ok |-> TRUE,
          ret |-> <<data.doses[Len(data.doses)]>>]

\* Mutant of handle_redo_data: the dose is put back at the front of doses.
handle_redo_data_at_front(data) ==
    [doses |-> <<data.undone_doses[Len(data.undone_doses)]>> \o data.doses,
     undone_doses |-> SubSeq(data.undone_doses, 1, Len(data.undone_doses) - 1),
     next_id |-> data.next_id]

\* Mutant of handle_redo_data: the dose is left in undone_doses as well.
handle_redo_data_keeps_undone(data) ==
    [doses |-> Append(data.doses, data.undone_doses[Len(data.undone_doses)]),
     undone_doses |-> data.undone_doses,
     next_id |-> data.next_id]

\* The store handle_redo saves (undone_doses is not empty).
handle_redo_data(data) ==
    LET last_undone == data.undone_doses[Len(data.undone_doses)]
    IN  [doses |-> Append(data.doses, last_undone),
         undone_doses |-> SubSeq(data.undone_doses, 1, Len(data.undone_doses) - 1),
         next_id |-> data.next_id]

\* stim redo
handle_redo_effect(file, cache) ==
    LET data == load_data(file) IN
    IF data.undone_doses = <<>>
    THEN [file |-> file, cache |-> cache, ok |-> FALSE, ret |-> <<"No doses to redo">>]
    ELSE [file |-> save_data(handle_redo_data(data)),
          cache |-> invalidate_cache(cache), ok |-> TRUE,
          ret |-> <<data.undone_doses[Len(data.undone_doses)]>>]

\* undo_last(): pops the last dose and saves; returns it, or None.
undo_last_effect(file, cache) ==
    LET data == load_data(file) IN
    IF data.doses = <<>>
    THEN [file |-> file, cache |-> cache, ok |-> FALSE, ret |-> <<>>]
    ELSE [file |-> save_data([doses |-> SubSeq(data.doses, 1, Len(data.doses) - 1),
                              undone_doses |-> data.undone_doses,
                              next_id |-> data.next_id]),
          cache |-> cache, ok |-> TRUE,
          ret |-> <<data.doses[Len(data.doses)]>>]

\* Mutant of keeps_dose: a dose of exactly HALF_LIFE_HOURS * 10 hours is kept.
keeps_dose_at_limit(dose, current_time) ==
    current_time - dose.timestamp <= HALF_LIFE_HOURS * PRUNE_HALF_LIVES * SecondsPerHour

\* The test of clean_old_doses: (current_time - timestamp) / 3600 < HALF_LIFE_HOURS * 10.
keeps_dose(dose, current_time) ==
    current_time - dose.timestamp < HALF_LIFE_HOURS * PRUNE_HALF_LIVES * SecondsPerHour

\* clean_old_doses(): filters doses and saves.
clean_old_doses_effect(file, cache, clock) ==
    LET data == load_data(file) IN
    [file |-> save_data([doses |-> SelectSeq(data.doses,
                                             LAMBDA dose : keeps_dose(dose, clock)),
                         undone_doses |-> data.undone_doses,
                         next_id |-> data.next_id]),
     cache |-> cache, ok |-> TRUE, ret |-> <<>>]

\* Mutant of get_cached_level_effect: an existing cache entry is served.
get_cached_level_effect_serve_cache(file, cache, clock) ==
    IF cache # <<>>
    THEN [file |-> file, cache |-> cache, ok |-> TRUE, ret |-> cache]
    ELSE [file |-> file, cache |-> <<cache_current_level(file, clock)>>, ok |-> TRUE,
          ret |-> <<cache_current_level(file, clock)>>]

\* stim (no arguments): get_cached_level() always recomputes and rewrites the cache.
get_cached_level_effect(file, cache, clock) ==
    [file |-> file, cache |-> <<cache_current_level(file, clock)>>, ok |-> TRUE,
     ret |-> <<cache_current_level(file, clock)>>]

\* The local time zone: its clocks are one hour ahead of UTC until DstEnd,
\* when they are set back by that hour (02:00 becomes 01:00 on day 3).
DstEnd == StartTime + SecondsPerDay + SecondsPerHour
utcoffset(t) == IF t < DstEnd THEN SecondsPerHour ELSE 0

\* datetime.now(): the reading of the local clock at t, in seconds.
localtime(t) == t + utcoffset(t)

\* target.timestamp(): the instant at which the local clock reads wall (the
\* first one when it reads wall twice).
mktime(wall) ==
    IF wall - SecondsPerHour < DstEnd THEN wall - SecondsPerHour ELSE wall

\* Mutant of get_next_time: the test is target < now.
get_next_time_at_or_after(clock, hour) ==
    LET wall   == localtime(clock)
        target == (wall \div SecondsPerDay) * SecondsPerDay + hour * SecondsPerHour
    IN  mktime(IF target < wall THEN target + SecondsPerDay ELSE target)

\* get_next_time(hour): the next occurrence of hour:00 on the local clock.
get_next_time(clock, hour) ==
    LET wall   == localtime(clock)
        target == (wall \div SecondsPerDay) * SecondsPerDay + hour * SecondsPerHour
    IN  mktime(IF target <= wall THEN target + SecondsPerDay ELSE target)

\* What check_future_dose returns, with the temporary dose it builds.
check_future_dose_result(data, amount, minutes_offset, clock) ==
    LET timestamp  == clock - Abs(minutes_offset * 60)
        temp_dose  == [timestamp |-> timestamp, amount |-> amount]
        test_doses == data.doses \o <<temp_dose>>
        level(t)   == calculate_current_level(test_doses, <<t>>, clock)
    IN  [temp_dose |-> temp_dose,
         current |-> [time |-> strftime(timestamp),
                      level |-> calculate_current_level(data.doses, <<>>, clock),
                      added_level |-> calculate_current_level(test_doses, <<>>, clock)],
         evening |-> [time |-> strftime(get_next_time(clock, 18)),
                      level |-> level(get_next_time(clock, 18))],
         night   |-> [time |-> strftime(get_next_time(clock, 22)),
                      level |-> level(get_next_time(clock, 22))],
         morning |-> [time |-> strftime(get_next_time(clock, 8)),
                      level |-> level(get_next_time(clock, 8))]]

\* Mutant of check_future_dose_effect: the temporary dose is appended to the
\* loaded doses in place and the store is saved.
check_future_dose_effect_saves(file, cache, text, minutes_offset, clock) ==
    LET data == load_data(file)
        res  == check_future_dose_result(data, ParseFloat(text, 1000),
                                         minutes_offset, clock)
    IN  [file |-> save_data([doses |-> Append(data.doses, res.temp_dose),
                             undone_doses |-> data.undone_doses,
                             next_id |-> data.next_id]),
         cache |-> cache, ok |-> TRUE, ret |-> <<res>>]

\* stim check <amount>: check_future_dose loads the store and saves nothing.
check_future_dose_effect(file, cache, text, minutes_offset, clock) ==
    [file |-> file, cache |-> cache, ok |-> TRUE,
     ret |-> <<check_future_dose_result(load_data(file), ParseFloat(text, 1000),
                                        minutes_offset, clock)>>]

\* seq[-limit:] of Python: the last limit elements, the whole list when limit
\* is 0 or exceeds the length, and the list without its first -limit elements
\* when limit is negative.
LastSlice(seq, limit) ==
    IF limit = 0 \/ limit >= Len(seq) THEN seq
    ELSE IF limit > 0 THEN SubSeq(seq, Len(seq) - limit + 1, Len(seq))
    ELSE SubSeq(seq, 1 - limit, Len(seq))

\* One entry of show_history: hours_ago = round((now - timestamp) / 3600, 1),
\* in tenths of an hour; remaining = round(amount * 0.5 ** (hours_ago / 6), 2).
history_entry(dose, clock) ==
    LET hours_ago == RoundHalfEven((clock - dose.timestamp) * 10, SecondsPerHour)
    IN  [timestamp |-> dose.timestamp, datetime |-> dose.datetime,
         amount |-> dose.amount, hours_ago |-> hours_ago,
         remaining |-> Round2(FMul(dose.amount,
                                   HalfPow((hours_ago * SecondsPerHour) \div 10)))]

\* show_history(limit): the entries of sorted(doses)[-limit:]; [] without doses.
show_history_effect(file, cache, limit, clock) ==
    LET data   == load_data(file)
        recent == LastSlice(SortByTimestamp(data.doses), limit)
    IN  [file |-> file, cache |-> cache, ok |-> TRUE,
         ret |-> IF data.doses = <<>> THEN <<>>
                 ELSE [i \in 1..Len(recent) |-> history_entry(recent[i], clock)]]

\* int(n / d): the quotient cut towards zero (d > 0).
Trunc(n, d) == IF n >= 0 THEN n \div d ELSE -((-n) \div d)

\* min(dose['timestamp'] for dose in doses), doses not empty.
EarliestTimestamp(doses) ==
    CHOOSE t \in {doses[i].timestamp : i \in 1..Len(doses)} :
        \A i \in 1..Len(doses) : t <= doses[i].timestamp

\* The end of the series: end_time or current_time (<<>> is None, 0 is falsy).
series_end(end_time, clock) ==
    IF end_time = <<>> \/ end_time[1] = 0 THEN clock ELSE end_time[1]

\* The start of the series: start_time, else the earliest dose, else a day
\* before the end.
series_start(doses, start_time, end_time, clock) ==
    IF start_time = <<>> \/ start_time[1] = 0
    THEN IF doses # <<>> THEN EarliestTimestamp(doses)
         ELSE series_end(end_time, clock) - 24 * SecondsPerHour
    ELSE start_time[1]

\* Mutant of num_points: the point at the start is not counted.
num_points_without_start(start_time, end_time, interval_seconds) ==
    Trunc(end_time - start_time, interval_seconds)

\* num_points = int((end_time - start_time) / interval_seconds) + 1
num_points(start_time, end_time, interval_seconds) ==
    Trunc(end_time - start_time, interval_seconds) + 1

\* generate_timeseries(start_time, end_time, interval_minutes): the points,
\* and whether the warning about their number was printed.
generate_timeseries_effect(file, cache, start_time, end_time, interval_minutes, clock) ==
    LET data  == load_data(file)
        end   == series_end(end_time, clock)
        start == series_start(data.doses, start_time, end_time, clock)
        interval_seconds == interval_minutes * 60
        n     == num_points(start, end, interval_seconds)
        point_time(i) == start + (i - 1) * interval_seconds
    IN  [file |-> file, cache |-> cache, ok |-> TRUE,
         ret |-> [warned |-> n > MAX_POINTS,
                  timeseries |->
                      [i \in 1..n |->
                          [timestamp |-> point_time(i),
                           datetime |-> strftime(point_time(i)),
                           level |-> calculate_current_level(data.doses,
                                                             <<point_time(i)>>, clock)]]]]

\* ------------------------------------------------------- the file as text
\* save_data opens DATA_FILE for writing, which empties it, and json.dump and
\* close then write the text at its start.  A file whose text json.load
\* cannot decode is <<[undecodable |-> length of the text]>>.

\* Number of decimal digits of n >= 0.
Digits(n) == CHOOSE d \in 1..10 : n < 10^d /\ (d = 1 \/ n >= 10^(d - 1))

\* len(repr(x)) for a float x >= 0 that is a whole number of 2^-k: the digits
\* before the point, the point, and k digits after it (one 0 when k = 0).
float_repr_len(x) ==
    IF x.m = 0 THEN 3
    ELSE LET z == CHOOSE z \in 0..30 : x.m % 2^z = 0 /\ x.m % 2^(z + 1) # 0
             m == x.m \div 2^z
             e == x.e + z
         IN  IF e >= 0 THEN Digits(m * 2^e) + 2
             ELSE Digits(m \div 2^(-e)) + 1 + (-e)

\* Length of one dose in json.dump(data, f, indent=2).
dose_len(dose) ==
    DoseFrame + Digits(dose.id) + (Digits(dose.timestamp) + 2)
        + float_repr_len(dose.amount)

RECURSIVE doses_len(_)
doses_len(doses) ==
    IF doses = <<>> THEN 0 ELSE dose_len(Head(doses)) + doses_len(Tail(doses))

\* Length of a list of doses: "[]", or the brackets, the doses, the commas
\* between them and the line break before the closing bracket.
list_len(doses) ==
    IF doses = <<>> THEN 2 ELSE 5 + doses_len(doses) + (Len(doses) - 1)

\* Length of the text save_data writes.
json_len(data) ==
    StoreFrame + list_len(data.doses) + list_len(data.undone_doses)
        + Digits(data.next_id)

\* json.load can decode the file (or there is no file).
Decodable(file) == file = <<>> \/ "doses" \in DOMAIN file[1]

file_len(file) ==
    IF file = <<>> THEN 0
    ELSE IF Decodable(file) THEN json_len(file[1]) ELSE file[1].undecodable

\* open(DATA_FILE, 'w')
open_for_writing(file) == <<[undecodable |-> 0]>>

\* json.dump and close: the text goes to the start of the file; what another
\* writer put there after this open and this text does not cover stays.
write_and_close(file, data) ==
    IF file_len(file) <= json_len(data)
    THEN <<data>>
    ELSE <<[undecodable |-> file_len(file)]>>

\* ----------------------------------------------------------------- actions
\* An operation with effect eff runs: the files change, and the history
\* records the operation with the files it started from.
Run(name, arg, eff) ==
    /\ DATA_FILE' = eff.file
    /\ CACHE_FILE' = eff.cache
    /\ last' = [op |-> name, ok |-> eff.ok, file |-> DATA_FILE, cache |-> CACHE_FILE,
                at |-> now, arg |-> arg, ret |-> eff.ret]
    /\ UNCHANGED <<now, ticks, race, perm_doses, perm_time, perm_level>>

add_dose(text, minutes_offset) ==
    LET eff == add_dose_effect(DATA_FILE, CACHE_FILE, text, minutes_offset, now) IN
    /\ eff.ok => load_data(DATA_FILE).next_id <= MaxId
    /\ Run("add", <<text, minutes_offset>>, eff)
    /\ issued' = IF eff.ok THEN Append(issued, load_data(DATA_FILE).next_id) ELSE issued
    /\ pre_add' = IF eff.ok THEN <<load_data(DATA_FILE)>> ELSE <<>>
    /\ undo_stack' = <<>>
    /\ redo_count' = 0
    /\ redo_trail' = IF eff.ok /\ redo_trail # <<>> /\ redo_trail[1].stage = "undo"
                     THEN <<[stage |-> "add", data |-> redo_trail[1].data]>>
                     ELSE <<>>

handle_undo ==
    LET eff == handle_undo_effect(DATA_FILE, CACHE_FILE) IN
    /\ Run("undo", <<>>, eff)
    /\ pre_add' = IF eff.ok /\ last.op = "add" /\ last.ok THEN pre_add ELSE <<>>
    /\ undo_stack' = IF ~eff.ok THEN <<>>
                     ELSE IF redo_count = 0
                          THEN Append(undo_stack, load_data(DATA_FILE))
                          ELSE <<load_data(DATA_FILE)>>
    /\ redo_count' = 0
    /\ redo_trail' = IF eff.ok
                     THEN <<[stage |-> "undo", data |-> load_data(DATA_FILE)]>>
                     ELSE <<>>
    /\ UNCHANGED issued

handle_redo ==
    LET eff == handle_redo_effect(DATA_FILE, CACHE_FILE) IN
    /\ Run("redo", <<>>, eff)
    /\ pre_add' = <<>>
    /\ IF eff.ok /\ redo_count < Len(undo_stack)
       THEN undo_stack' = undo_stack /\ redo_count' = redo_count + 1
       ELSE undo_stack' = <<>> /\ redo_count' = 0
    /\ redo_trail' = IF eff.ok /\ redo_trail # <<>> /\ redo_trail[1].stage = "add"
                     THEN <<[stage |-> "redo", data |-> redo_trail[1].data]>>
                     ELSE <<>>
    /\ UNCHANGED issued

undo_last ==
    LET eff == undo_last_effect(DATA_FILE, CACHE_FILE) IN
    /\ Run("undo_last", <<>>, eff)
    /\ pre_add' = IF eff.ok /\ last.op = "add" /\ last.ok THEN pre_add ELSE <<>>
    /\ undo_stack' = <<>>
    /\ redo_count' = 0
    /\ redo_trail' = <<>>
    /\ UNCHANGED issued

clean_old_doses ==
    /\ Run("prune", <<>>, clean_old_doses_effect(DATA_FILE, CACHE_FILE, now))
    /\ pre_add' = <<>>
    /\ undo_stack' = <<>>
    /\ redo_count' = 0
    /\ redo_trail' = <<>>
    /\ UNCHANGED issued

get_cached_level ==
    /\ Run("read", <<>>, get_cached_level_effect(DATA_FILE, CACHE_FILE, now))
    /\ pre_add' = <<>>
    /\ undo_stack' = <<>>
    /\ redo_count' = 0
    /\ redo_trail' = <<>>
    /\ UNCHANGED issued

check_future_dose(text, minutes_offset) ==
    /\ Run("check", <<text, minutes_offset>>,
           check_future_dose_effect(DATA_FILE, CACHE_FILE, text, minutes_offset, now))
    /\ pre_add' = <<>>
    /\ undo_stack' = <<>>
    /\ redo_count' = 0
    /\ redo_trail' = <<>>
    /\ UNCHANGED issued

\* stim history calls show_history(5).
show_history(limit) ==
    /\ Run("history", <<limit>>, show_history_effect(DATA_FILE, CACHE_FILE, limit, now))
    /\ pre_add' = <<>>
    /\ undo_stack' = <<>>
    /\ redo_count' = 0
    /\ redo_trail' = <<>>
    /\ UNCHANGED issued

generate_timeseries(start_time, end_time, interval_minutes) ==
    /\ Run("generate", <<start_time, end_time, interval_minutes>>,
           generate_timeseries_effect(DATA_FILE, CACHE_FILE, start_time, end_time,
                                      interval_minutes, now))
    /\ pre_add' = <<>>
    /\ undo_stack' = <<>>
    /\ redo_count' = 0
    /\ redo_trail' = <<>>
    /\ UNCHANGED issued

\* Time passes between two invocations.
Tick ==
    /\ ticks < MaxTicks
    /\ ticks' = ticks + 1
    /\ now' = now + TickHours * SecondsPerHour
    /\ UNCHANGED <<DATA_FILE, CACHE_FILE, issued, last, pre_add, undo_stack,
                   redo_count, redo_trail, race, perm_doses, perm_time, perm_level>>

Init ==
    /\ DATA_FILE = <<>>
    /\ CACHE_FILE = <<>>
    /\ now = StartTime
    /\ ticks = 0
    /\ issued = <<>>
    /\ last = [op |-> "start", ok |-> TRUE, file |-> <<>>, cache |-> <<>>,
               at |-> StartTime, arg |-> <<>>, ret |-> <<>>]
    /\ pre_add = <<>>
    /\ undo_stack = <<>>
    /\ redo_count = 0
    /\ redo_trail = <<>>
    /\ race = NoRace
    /\ perm_doses = <<>>
    /\ perm_time = 0
    /\ perm_level = 0

Next ==
    \/ \E text \in ValidAmounts, minutes_offset \in Offsets : add_dose(text, minutes_offset)
    \/ \E text \in Amounts \ ValidAmounts : add_dose(text, 0)
    \/ handle_undo
    \/ handle_redo
    \/ undo_last
    \/ clean_old_doses
    \/ get_cached_level
    \/ \E text \in CheckAmounts : check_future_dose(text, 0)
    \/ show_history(HISTORY_LIMIT)
    \/ generate_timeseries(<<>>, <<>>, 24 * 60)
    \/ Tick

Spec == Init /\ [][Next]_vars

\* ------------------------------------------------- add, undo and redo only
\* The runs of the command line that never prune: add, undo and redo.
NextStack ==
    \/ \E text \in ValidAmounts, minutes_offset \in Offsets : add_dose(text, minutes_offset)
    \/ \E text \in Amounts \ ValidAmounts : add_dose(text, 0)
    \/ handle_undo
    \/ handle_redo
    \/ Tick

SpecStack == Init /\ [][NextStack]_vars

\* ------------------------------------------------- offsets of either sign
\* Doses and checks with offsets of either sign, and histories of any length.
SignedOffsets == {0, 120, -120}
HistoryLimits == {0, 1, 2, HISTORY_LIMIT}

NextReports ==
    \/ \E text \in CheckAmounts, minutes_offset \in SignedOffsets :
           add_dose(text, minutes_offset)
    \/ \E text \in CheckAmounts, minutes_offset \in SignedOffsets :
           check_future_dose(text, minutes_offset)
    \/ \E limit \in HistoryLimits : show_history(limit)
    \/ Tick

SpecReports == Init /\ [][NextReports]_vars

\* ------------------------------------------------- time series of any range
\* generate_timeseries with and without start and end, over ranges the
\* interval divides and ranges it does not, and one range of more than
\* MAX_POINTS points.  generate_timeseries writes no file, so a second series
\* in a row would start from the same files: one is generated after each add.
SeriesStarts == {<<>>, <<0>>, <<StartTime>>, <<-2 * SecondsPerHour>>}
SeriesEnds == {<<>>, <<0>>, <<StartTime + 3 * SecondsPerHour>>, <<3 * SecondsPerHour>>}
SeriesIntervals == {60, 120}
LongSeries == <<<<StartTime>>,
                <<StartTime + MAX_POINTS * SecondsPerHour + SecondsPerHour \div 2>>, 60>>
SeriesArgs ==
    {<<start_time, end_time, interval_minutes>> :
        start_time \in SeriesStarts, end_time \in SeriesEnds,
        interval_minutes \in SeriesIntervals} \cup {LongSeries}

NextSeries ==
    \/ \E text \in CheckAmounts, minutes_offset \in Offsets :
           add_dose(text, minutes_offset)
    \/ /\ last.op # "generate"
       /\ \E arg \in SeriesArgs : generate_timeseries(arg[1], arg[2], arg[3])

SpecSeries == Init /\ [][NextSeries]_vars

\* ------------------------------------------------ two invocations at once
\* Two processes run stim <amount> at the same time.  Each goes through
\* add_dose step by step: load_data, then save_data (open, then write and
\* close), then the unlink of the cache.  Before they start, doses may have
\* been added one invocation at a time.
RaceAmounts == {100000, 50500}

Step(p, pc, loaded, new, step) ==
    race' = [procs |-> [race.procs EXCEPT ![p] = [pc |-> pc, loaded |-> loaded,
                                                   new |-> new]],
             log |-> Append(race.log, <<p, step>>)]

Idle == \A p \in Procs : race.procs[p].pc = "idle"

\* add_dose up to save_data: load_data, the new dose, the append.  json.load
\* raises a ValueError on a file it cannot decode, which main prints.
race_load(p, text) ==
    /\ race.procs[p].pc = "idle"
    /\ IF Decodable(DATA_FILE)
       THEN LET data == load_data(DATA_FILE)
                new  == add_dose_data(data, ParseFloat(text, 1000),
                                      dose_timestamp(now, 0))
            IN  Step(p, "open", <<data>>, <<new>>, "load")
       ELSE Step(p, "failed", <<>>, <<>>, "load")
    /\ UNCHANGED <<DATA_FILE, CACHE_FILE, now, ticks, issued, last, pre_add,
                   undo_stack, redo_count, redo_trail, perm_doses, perm_time,
                   perm_level>>

\* save_data: open(DATA_FILE, 'w')
race_open(p) ==
    /\ race.procs[p].pc = "open"
    /\ DATA_FILE' = open_for_writing(DATA_FILE)
    /\ Step(p, "write", race.procs[p].loaded, race.procs[p].new, "open")
    /\ UNCHANGED <<CACHE_FILE, now, ticks, issued, last, pre_add,
                   undo_stack, redo_count, redo_trail, perm_doses, perm_time,
                   perm_level>>

\* save_data: json.dump and the end of the with block
race_write(p) ==
    /\ race.procs[p].pc = "write"
    /\ DATA_FILE' = write_and_close(DATA_FILE, race.procs[p].new[1])
    /\ Step(p, "unlink", race.procs[p].loaded, race.procs[p].new, "write")
    /\ UNCHANGED <<CACHE_FILE, now, ticks, issued, last, pre_add,
                   undo_stack, redo_count, redo_trail, perm_doses, perm_time,
                   perm_level>>

\* if CACHE_FILE.exists(): CACHE_FILE.unlink()
race_unlink(p) ==
    /\ race.procs[p].pc = "unlink"
    /\ CACHE_FILE' = invalidate_cache(CACHE_FILE)
    /\ Step(p, "done", race.procs[p].loaded, race.procs[p].new, "unlink")
    /\ UNCHANGED <<DATA_FILE, now, ticks, issued, last, pre_add,
                   undo_stack, redo_count, redo_trail, perm_doses, perm_time,
                   perm_level>>

NextRace ==
    \/ /\ Idle
       /\ \E text \in RaceAmounts : add_dose(text, 0)
    \/ \E p \in Procs, text \in RaceAmounts : race_load(p, text)
    \/ \E p \in Procs : race_open(p)
    \/ \E p \in Procs : race_write(p)
    \/ \E p \in Procs : race_unlink(p)

SpecRace == Init /\ [][NextRace]_vars

\* ---------------------------------------------------- get_next_time alone
\* get_next_time is called at any half hour of two days, across the change
\* of the local clock, for each of the hours check_future_dose asks for.
ClockTimes == {StartTime + k * (SecondsPerHour \div 2) : k \in 0..MaxHalfHours}
ReferenceHours == {18, 22, 8}

InitClock ==
    /\ DATA_FILE = <<>>
    /\ CACHE_FILE = <<>>
    /\ now \in ClockTimes
    /\ ticks = 0
    /\ issued = <<>>
    /\ last = [op |-> "start", ok |-> TRUE, file |-> <<>>, cache |-> <<>>,
               at |-> StartTime, arg |-> <<>>, ret |-> <<>>]
    /\ pre_add = <<>>
    /\ undo_stack = <<>>
    /\ redo_count = 0
    /\ redo_trail = <<>>
    /\ race = NoRace
    /\ perm_doses = <<>>
    /\ perm_time = 0
    /\ perm_level = 0

next_reference(hour) ==
    /\ Run("next_time", <<hour>>,
           [file |-> DATA_FILE, cache |-> CACHE_FILE, ok |-> TRUE,
            ret |-> <<get_next_time(now, hour)>>])
    /\ UNCHANGED <<issued, pre_add, undo_stack, redo_count, redo_trail>>

NextClock == \E hour \in ReferenceHours : next_reference(hour)

SpecClock == InitClock /\ [][NextClock]_vars

\* ------------------------------------------------- a store without next_id
\* The store file was written by a version that kept no next_id: its doses
\* carry an id or not.  Doses are then added.
LegacyDoses ==
    LET dose == [timestamp |-> StartTime, amount |-> ParseFloat(100000, 1000),
                 datetime |-> strftime(StartTime)]
    IN  {dose} \cup {dose @@ [id |-> id] : id \in 1..MaxId}
LegacyFiles ==
    {<<[doses |-> doses]>> : doses \in UNION {[1..n -> LegacyDoses] : n \in 0..MaxLen}}

InitLegacy ==
    /\ DATA_FILE \in LegacyFiles
    /\ CACHE_FILE = <<>>
    /\ now = StartTime
    /\ ticks = 0
    /\ issued = <<>>
    /\ last = [op |-> "start", ok |-> TRUE, file |-> <<>>, cache |-> <<>>,
               at |-> StartTime, arg |-> <<>>, ret |-> <<>>]
    /\ pre_add = <<>>
    /\ undo_stack = <<>>
    /\ redo_count = 0
    /\ redo_trail = <<>>
    /\ race = NoRace
    /\ perm_doses = <<>>
    /\ perm_time = 0
    /\ perm_level = 0

NextLegacy ==
    \/ \E text \in CheckAmounts : add_dose(text, 0)
    \/ handle_undo

SpecLegacy == InitLegacy /\ [][NextLegacy]_vars

\* ------------------------------------------- calculate_current_level alone
\* calculate_current_level is given a list of doses and a query time; the list
\* is then reordered, one exchange of neighbours at a time.
PermAmounts == {72200, 23400, 105000}
PermTimestamps == {StartTime, StartTime + HALF_LIFE_HOURS * SecondsPerHour}
PermQueryTimes == {StartTime + HALF_LIFE_HOURS * SecondsPerHour,
                   StartTime + 2 * HALF_LIFE_HOURS * SecondsPerHour}
PermDoses ==
    {[timestamp |-> t, amount |-> ParseFloat(a, 1000)] :
        t \in PermTimestamps, a \in PermAmounts}

InitLevel ==
    /\ DATA_FILE = <<>>
    /\ CACHE_FILE = <<>>
    /\ now = StartTime
    /\ ticks = 0
    /\ issued = <<>>
    /\ last = [op |-> "start", ok |-> TRUE, file |-> <<>>, cache |-> <<>>,
               at |-> StartTime, arg |-> <<>>, ret |-> <<>>]
    /\ pre_add = <<>>
    /\ undo_stack = <<>>
    /\ redo_count = 0
    /\ redo_trail = <<>>
    /\ race = NoRace
    /\ perm_doses \in UNION {[1..n -> PermDoses] : n \in 1..MaxLen}
    /\ perm_time \in PermQueryTimes
    /\ perm_level = calculate_current_level(perm_doses, <<perm_time>>, perm_time)

\* Two neighbours of the list change places.
Exchange(i) ==
    /\ perm_doses' = [perm_doses EXCEPT ![i] = perm_doses[i + 1],
                                        ![i + 1] = perm_doses[i]]
    /\ UNCHANGED <<DATA_FILE, CACHE_FILE, now, ticks, issued, last, pre_add,
                   undo_stack, redo_count, redo_trail, race, perm_time, perm_level>>

NextLevel == \E i \in 1..(Len(perm_doses) - 1) : Exchange(i)

SpecLevel == InitLevel /\ [][NextLevel]_vars

\* ------------------------------- calculate_current_level at a moving time
\* calculate_current_level is given a list of doses and a query time
\* (specific_time); the list stays, the query time moves on by one half-life
\* at a time.  Doses may lie before the epoch, and the query time passes it.
HalfLife == HALF_LIFE_HOURS * SecondsPerHour
QueryAmounts == {100000, 72200}
QueryTimestamps == {-HalfLife, StartTime, StartTime + HalfLife}
QueryDoses ==
    {[timestamp |-> t, amount |-> ParseFloat(a, 1000)] :
        t \in QueryTimestamps, a \in QueryAmounts}
QueryEnd == StartTime + MaxHalfLives * HalfLife

InitQuery ==
    /\ DATA_FILE = <<>>
    /\ CACHE_FILE = <<>>
    /\ now = StartTime
    /\ ticks = 0
    /\ issued = <<>>
    /\ last = [op |-> "start", ok |-> TRUE, file |-> <<>>, cache |-> <<>>,
               at |-> StartTime, arg |-> <<>>, ret |-> <<>>]
    /\ pre_add = <<>>
    /\ undo_stack = <<>>
    /\ redo_count = 0
    /\ redo_trail = <<>>
    /\ race = NoRace
    /\ perm_doses \in UNION {[1..n -> QueryDoses] : n \in 0..MaxLen}
    /\ perm_time = -HalfLife
    /\ perm_level = calculate_current_level(perm_doses, <<perm_time>>, now)

\* The same list is queried one half-life later.
QueryLater ==
    /\ perm_time < QueryEnd
    /\ perm_time' = perm_time + HalfLife
    /\ perm_level' = calculate_current_level(perm_doses, <<perm_time'>>, now)
    /\ UNCHANGED <<DATA_FILE, CACHE_FILE, now, ticks, issued, last, pre_add,
                   undo_stack, redo_count, redo_trail, race, perm_doses>>

NextQuery == QueryLater

SpecQuery == InitQuery /\ [][NextQuery]_vars

\* ------------------------------------------------------------------ claims
\* The store the program would load now, and the one the last operation loaded.
Data == load_data(DATA_FILE)
Before == load_data(last.file)
AllDoses(data) == data.doses \o data.undone_doses
IsUndo == last.op \in {"undo", "undo_last"}

\* C1: next_id is greater than the id of every dose in doses and in undone,
\* and add never gives out the same id twice.
C1_IdsNeverReused ==
    /\ \A i \in 1..Len(AllDoses(Data)) : AllDoses(Data)[i].id < Data.next_id
    /\ \A i, j \in 1..Len(issued) : i # j => issued[i] # issued[j]

\* C1 witness: a second id was given out after the first dose was undone.
C1_Witness ==
    /\ Len(issued) = 2
    /\ Len(Data.doses) = 1 /\ Data.doses[1].id = 2
    /\ Len(Data.undone_doses) = 1 /\ Data.undone_doses[1].id = 1

\* C2: k undos followed by k redos leave doses, undone and next_id as they
\* were before the first of these undos (every dose back, same fields, same order).
C2_UndoRedoRoundTrip ==
    redo_count > 0 => Data = undo_stack[Len(undo_stack) - redo_count + 1]

\* C2 witness: two undos, then two redos.
C2_Witness ==
    /\ redo_count = 2
    /\ last.op = "redo" /\ last.ok
    /\ Len(Data.doses) = 2

\* C3: every undo on a non-empty doses list, undo_last included, leaves the
\* removed dose as the last element of undone.
C3_UndoPushesRemoved ==
    (IsUndo /\ Before.doses # <<>>) =>
        Data.undone_doses = Append(Before.undone_doses,
                                   Before.doses[Len(Before.doses)])

\* C4: an undo right after an add leaves doses as before the add and next_id
\* as after the add; no undo changes next_id.
C4_AddThenUndo ==
    /\ (IsUndo /\ last.ok /\ pre_add # <<>>) =>
           /\ Data.doses = pre_add[1].doses
           /\ Data.next_id = pre_add[1].next_id + 1
    /\ IsUndo => Data.next_id = Before.next_id

\* C4 witness: a dose was added to a non-empty store and undone at once.
C4_Witness ==
    /\ last.op = "undo" /\ last.ok
    /\ pre_add # <<>> /\ pre_add[1].doses # <<>>

\* C5: undo on empty doses and redo on empty undone report that there is
\* nothing to do and leave the store file and the cache file as they were.
C5_NothingToDo ==
    /\ (last.op = "undo" /\ Before.doses = <<>>) =>
           /\ ~last.ok /\ last.ret = <<"No doses to undo">>
           /\ DATA_FILE = last.file /\ CACHE_FILE = last.cache
    /\ (last.op = "redo" /\ Before.undone_doses = <<>>) =>
           /\ ~last.ok /\ last.ret = <<"No doses to redo">>
           /\ DATA_FILE = last.file /\ CACHE_FILE = last.cache
    /\ (last.op = "undo_last" /\ Before.doses = <<>>) =>
           /\ ~last.ok /\ last.ret = <<>>
           /\ DATA_FILE = last.file /\ CACHE_FILE = last.cache

\* C5 witness: undo found doses empty while a store file and a cache entry exist.
C5_Witness ==
    /\ last.op = "undo" /\ ~last.ok
    /\ DATA_FILE # <<>> /\ CACHE_FILE # <<>>
    /\ Data.undone_doses # <<>>

C7_MutationDeletesCache ==
    (last.op \in {"add", "undo", "undo_last", "redo", "prune"} /\ last.ok) =>
        CACHE_FILE = <<>>

\* C8: a read returns the level of the stored doses at the time of the read,
\* whatever the cache held, and leaves exactly that level in the cache.
C8_ReadRecomputes ==
    last.op = "read" =>
        /\ last.ret[1].level = calculate_current_level(Before.doses, <<>>, last.at)
        /\ CACHE_FILE = last.ret
        /\ DATA_FILE = last.file

\* C8 witness: the read found a cache entry holding another level.
C8_Witness ==
    /\ last.op = "read"
    /\ last.cache # <<>>
    /\ last.cache[1].level # last.ret[1].level

\* C9: check_future_dose leaves the store file and the cache file as they
\* were, and its temporary dose is in neither doses nor undone.
C9_CheckDoesNotMutate ==
    last.op = "check" =>
        /\ DATA_FILE = last.file /\ CACHE_FILE = last.cache
        /\ \A i \in 1..Len(AllDoses(Data)) :
               /\ "id" \in DOMAIN AllDoses(Data)[i]
               /\ "id" \notin DOMAIN last.ret[1].temp_dose

\* C9 witness: a check ran on a store with doses and a cache entry.
C9_Witness ==
    /\ last.op = "check"
    /\ Data.doses # <<>> /\ Data.undone_doses # <<>> /\ CACHE_FILE # <<>>

\* C10: calculate_current_level gives every ordering of the same doses the
\* level it gave the first ordering.
C10_PermutationInvariant ==
    calculate_current_level(perm_doses, <<perm_time>>, perm_time) = perm_level

\* C11: the level at a time is the sum of what remains of exactly the doses
\* taken at or before that time: later doses add nothing, a dose taken at
\* that very time counts in full, and no doses give level 0.
C11_LevelSumsPastDoses ==
    LET past == SelectSeq(perm_doses, LAMBDA d : d.timestamp <= perm_time) IN
    /\ perm_level = Round2(SumRemaining(SortByTimestamp(past), perm_time, Zero))
    /\ perm_doses = <<>> => perm_level = 0
    /\ (Len(perm_doses) = 1 /\ perm_doses[1].timestamp = perm_time) =>
           perm_level = Round2(perm_doses[1].amount)

\* C12: the level of a single dose k half-lives after it is amount / 2^k (to
\* the hundredth), and once the query time is past the latest dose the level
\* does not rise as the query time moves on.
C12_HalvesEveryHalfLife ==
    /\ [](\A k \in 0..(MaxHalfLives + StartTime \div HalfLife + 1) :
             (Len(perm_doses) = 1 /\ perm_time = perm_doses[1].timestamp + k * HalfLife) =>
                 perm_level = Round2([m |-> perm_doses[1].amount.m,
                                      e |-> perm_doses[1].amount.e - k]))
    /\ [][(\A i \in 1..Len(perm_doses) : perm_doses[i].timestamp <= perm_time)
              => perm_level' <= perm_level]_vars

C14_EveryIdInOnePlace ==
    \A id \in 1..(Data.next_id - 1) :
        Cardinality({i \in 1..Len(AllDoses(Data)) : AllDoses(Data)[i].id = id}) = 1

\* C14 witness: two ids were given out; dose 1 is in doses, dose 2 in undone.
C14_Witness ==
    /\ Data.next_id = 3
    /\ Len(Data.doses) = 1 /\ Data.doses[1].id = 1
    /\ Len(Data.undone_doses) = 1 /\ Data.undone_doses[1].id = 2

\* C15: undone changes only by undo, which appends one dose, and by redo,
\* which removes its last dose; add, prune, history, check, the time series
\* and the read leave it as it was, so right after an add a redo still
\* restores the dose undone before that add.
C15_UndoneChangesOnlyByUndoRedo ==
    /\ (last.op \notin {"undo", "redo"} \/ ~last.ok) =>
           Data.undone_doses = Before.undone_doses
    /\ (last.op = "undo" /\ last.ok) =>
           /\ Len(Data.undone_doses) = Len(Before.undone_doses) + 1
           /\ SubSeq(Data.undone_doses, 1, Len(Before.undone_doses)) = Before.undone_doses
    /\ (last.op = "redo" /\ last.ok) =>
           Data.undone_doses = SubSeq(Before.undone_doses, 1, Len(Before.undone_doses) - 1)
    /\ (last.op = "add" /\ last.ok /\ Before.undone_doses # <<>>) =>
           /\ handle_redo_effect(DATA_FILE, CACHE_FILE).ok
           /\ load_data(handle_redo_effect(DATA_FILE, CACHE_FILE).file).doses =
                  Append(Data.doses, Before.undone_doses[Len(Before.undone_doses)])

\* C15 witness: a dose was added while a dose undone earlier waits in undone.
C15_Witness ==
    /\ last.op = "add" /\ last.ok
    /\ Before.undone_doses # <<>>
    /\ Data.undone_doses = Before.undone_doses

\* C16: after an undo of d, an add of n and a redo, in a row, doses is the
\* list before the undo without d, then n, then d.
C16_RedoAppendsAtEnd ==
    (redo_trail # <<>> /\ redo_trail[1].stage = "redo") =>
        LET pre == redo_trail[1].data.doses
            d   == pre[Len(pre)]
            n   == Before.doses[Len(Before.doses)]
        IN  /\ n.id = Data.next_id - 1
            /\ Data.doses = SubSeq(pre, 1, Len(pre) - 1) \o <<n, d>>

\* C16 witness: the redo came after an undo and an add, and doses ends with
\* the dose added, then the dose undone.
C16_Witness ==
    /\ redo_trail # <<>> /\ redo_trail[1].stage = "redo"
    /\ last.op = "redo" /\ last.ok
    /\ Len(Data.doses) >= 2
    /\ Data.doses[Len(Data.doses)].id < Data.doses[Len(Data.doses) - 1].id

\* C17: undo removes the dose at the end of doses, the one appended last,
\* whatever the timestamps: every other dose stays, in place.
C17_UndoRemovesLastAppended ==
    (IsUndo /\ last.ok) =>
        /\ last.ret = <<Before.doses[Len(Before.doses)]>>
        /\ Data.doses = SubSeq(Before.doses, 1, Len(Before.doses) - 1)

\* C17 witness: the dose appended last was backdated before the dose appended
\* first; undo removed it and left the dose with the latest timestamp.
C17_Witness ==
    /\ last.op = "undo" /\ last.ok
    /\ Len(Before.doses) = 2
    /\ Before.doses[2].timestamp < Before.doses[1].timestamp
    /\ Data.doses = <<Before.doses[1]>>

\* C18: history(limit) returns min(limit, number of doses) entries, limit 0
\* included, and they are the doses with the greatest timestamps.
C18_HistoryReturnsMostRecent ==
    last.op = "history" =>
        LET doses == Before.doses
            ret   == last.ret
            limit == last.arg[1]
        IN  /\ Len(ret) = IF limit < Len(doses) THEN limit ELSE Len(doses)
            /\ \A i \in 1..Len(ret) :
                   /\ \E j \in 1..Len(doses) :
                          /\ doses[j].timestamp = ret[i].timestamp
                          /\ doses[j].amount = ret[i].amount
                   /\ Cardinality({j \in 1..Len(doses) :
                                      doses[j].timestamp > ret[i].timestamp}) < Len(ret)

\* C19 as stated: prune keeps exactly the doses taken at most
\* HALF_LIFE_HOURS * 10 hours ago (a dose of exactly that age is kept), in
\* their order, and writes the store even when nothing was removed.
C19_PruneKeepsUpToLimit ==
    last.op = "prune" =>
        /\ Data.doses = SelectSeq(Before.doses, LAMBDA dose :
               last.at - dose.timestamp <= HALF_LIFE_HOURS * PRUNE_HALF_LIVES * SecondsPerHour)
        /\ DATA_FILE # <<>>

\* C19: prune keeps exactly the doses taken less than HALF_LIFE_HOURS * 10
\* hours ago (a dose of exactly that age is removed), in their order, leaves
\* undone and next_id alone, and writes the store even when nothing was removed.
C19_PruneKeepsBelowLimit ==
    last.op = "prune" =>
        /\ Data.doses = SelectSeq(Before.doses, LAMBDA dose :
               last.at - dose.timestamp < HALF_LIFE_HOURS * PRUNE_HALF_LIVES * SecondsPerHour)
        /\ Data.undone_doses = Before.undone_doses
        /\ Data.next_id = Before.next_id
        /\ DATA_FILE # <<>>

\* C19 witness: prune found a dose of exactly HALF_LIFE_HOURS * 10 hours and a
\* younger one, and kept the younger one only.
C19_Witness ==
    /\ last.op = "prune"
    /\ Len(Before.doses) = 2
    /\ last.at - Before.doses[1].timestamp =
           HALF_LIFE_HOURS * PRUNE_HALF_LIVES * SecondsPerHour
    /\ Data.doses = <<Before.doses[2]>>

\* The start and the end generate_timeseries works with: those given, or the
\* defaults when they are absent (None or 0).
C20_End == IF last.arg[2] = <<>> \/ last.arg[2][1] = 0 THEN last.at ELSE last.arg[2][1]
C20_Start ==
    IF last.arg[1] = <<>> \/ last.arg[1][1] = 0
    THEN IF Before.doses # <<>>
         THEN CHOOSE t \in {Before.doses[i].timestamp : i \in 1..Len(Before.doses)} :
                  \A i \in 1..Len(Before.doses) : t <= Before.doses[i].timestamp
         ELSE C20_End - SecondsPerDay
    ELSE last.arg[1][1]
C20_Points == last.ret.timeseries
C20_Spaced ==
    /\ \A i \in 1..(Len(C20_Points) - 1) :
           C20_Points[i + 1].timestamp - C20_Points[i].timestamp = last.arg[3] * 60
    /\ \A i \in 1..Len(C20_Points) :
           C20_Points[i].level =
               calculate_current_level(Before.doses, <<C20_Points[i].timestamp>>, last.at)

StepAt(p, step) == CHOOSE i \in 1..Len(race.log) : race.log[i] = <<p, step>>

\* C21: when two adds both load the store before either saves, the store
\* after both have saved is the store they loaded plus the dose of the one
\* that wrote last, and nothing else; both gave their dose the same id.
C21_LastWriterWins ==
    (/\ \A p \in Procs : race.procs[p].pc \in {"unlink", "done"}
     /\ \A p, q \in Procs : StepAt(p, "load") < StepAt(q, "open")) =>
        LET winner == CHOOSE p \in Procs :
                          \A q \in Procs : StepAt(q, "write") <= StepAt(p, "write")
            dose(p) == race.procs[p].new[1].doses[Len(race.procs[p].new[1].doses)]
        IN  /\ \A p, q \in Procs : dose(p).id = dose(q).id
            /\ Decodable(DATA_FILE)
            /\ Data.doses = Append(race.procs[winner].loaded[1].doses, dose(winner))

\* The day and the time of day the local clock shows at t.
LocalDay(t) == localtime(t) \div SecondsPerDay
LocalTimeOfDay(t) == localtime(t) % SecondsPerDay

\* The reference instant is when the local clock next reads hour:00: today
\* if that is still to come, else tomorrow, also when it reads hour:00 now.
C22_NextOccurrence ==
    /\ last.ret[1] > last.at
    /\ LocalTimeOfDay(last.ret[1]) = last.arg[1] * SecondsPerHour
    /\ LocalDay(last.ret[1]) =
           IF last.arg[1] * SecondsPerHour > LocalTimeOfDay(last.at)
           THEN LocalDay(last.at) ELSE LocalDay(last.at) + 1

\* C22 as stated: for 18:00, 22:00 and 08:00 the reference instant is after
\* now and at most 24 hours after now; it is today at that hour if that is
\* still to come and tomorrow at that hour otherwise.
C22_NextTimeWithinADay ==
    last.op = "next_time" =>
        /\ C22_NextOccurrence
        /\ last.ret[1] - last.at <= SecondsPerDay

\* C22: for 18:00, 22:00 and 08:00 the reference instant is after now and at
\* most 24 hours later on the local clock; it is today at that hour if that
\* is still to come and tomorrow at that hour otherwise.  It is at most 24
\* hours after now plus the time by which the local clock is set back in
\* between.
C22_NextTimeWithinALocalDay ==
    last.op = "next_time" =>
        /\ C22_NextOccurrence
        /\ localtime(last.ret[1]) - localtime(last.at) <= SecondsPerDay
        /\ last.ret[1] - last.at <=
               SecondsPerDay + (utcoffset(last.at) - utcoffset(last.ret[1]))

\* C22 witness: the local clock reads 18:00 on the eve of its change; the
\* next 18:00 is tomorrow, 25 hours away.
C22_Witness ==
    /\ last.op = "next_time" /\ last.arg[1] = 18
    /\ LocalTimeOfDay(last.at) = 18 * SecondsPerHour
    /\ last.ret[1] - last.at = SecondsPerDay + SecondsPerHour

\* C23: the next_id load_data returns for a file without next_id is greater
\* than the id of every dose it returns, so that the dose an add then stores
\* has an id no earlier dose has.
C23_LegacyNextIdAboveIds ==
    /\ (DATA_FILE # <<>> /\ "next_id" \notin DOMAIN DATA_FILE[1]) =>
           \A i \in 1..Len(Data.doses) : Data.doses[i].id < Data.next_id
    /\ (last.op = "add" /\ last.ok) =>
           \A i \in 1..(Len(Data.doses) - 1) :
               Data.doses[i].id # Data.doses[Len(Data.doses)].id

====
